---- MODULE Spec2Model ----
(***************************************************************************)
(* Infinite spaced-repetition scheduler of DSA-AI.                         *)
(*                                                                         *)
(*   store      src/unnamed/part_019 (zustand store: reviewCards,          *)
(*              reviewCardState and the four review actions)               *)
(*   session    src/client/src/components/features/                        *)
(*              InfiniteReviewSession.tsx (selection, generation guard,    *)
(*              debounced sync)                                            *)
(*   server     src/server/storage.ts (review tables: retention and the    *)
(*              card cap)                                                  *)
(*                                                                         *)
(* Timestamps are milliseconds, as Date.now() returns them.  efactor is a  *)
(* float with two decimals in the source; it is kept here in hundredths    *)
(* (2.5 is 250, 1.3 is 130) and the grade arithmetic is done in            *)
(* hundredths, which is exact for every constant the source uses.          *)
(***************************************************************************)
EXTENDS Integers, Sequences, FiniteSets, TLC

\* ------------------------------------------------------------------ bounds
NumCards == 2
NumContents == 2
MaxReviewGrades == 3
MaxInterval == 20
MaxDays == 2
MaxStoreGrades == 1
MaxSessionGrades == 2
MaxMounts == 2
MaxInFlight == 2
MaxGenerations == 2
MaxTicks == 2
\* The server's clock moves MaxServerTicks times, TickDays days at a time.
MaxServerTicks == 3
TickDays == 45

\* --------------------------------------------------------- program constants
DAY_MS == 24 * 60 * 60 * 1000
GRADUATION_SEEN_COUNT == 10
EFACTOR_FLOOR == 130
EFACTOR_DEFAULT == 250
EASY_BONUS == 115
NO_BONUS == 100
LEARN_TARGET == 10
SYNC_DEBOUNCE_MS == 1200
CARD_SYNC_DEBOUNCE_MS == 1800
GENERATION_COOLDOWN_MS == 15000
REVIEW_RETENTION_DAYS == 90

CardIds == 1 .. NumCards
Contents == 1 .. NumContents
Grades == {"again", "hard", "good", "easy"}
Instances == 0 .. MaxMounts

\* null: no current card, no armed timer, no awaited fetch.
Null == 0
\* A missing entry of the reviewCards list / of the reviewCardState record.
NoCard == 0
NoState == [phase |-> "none"]
\* lastReviewedAt is optional in ReviewCardState.
Undefined == -1
\* A card id without a row in a server table.
NoRow == Undefined

VARIABLES
    now,              \* Date.now()
    reviewCards,      \* store: card id -> content, NoCard when not in the list
    reviewCardState,  \* store: card id -> ReviewCardState, NoState when absent
    nGraded,          \* history: recordReviewResult calls per card id
    nAgainInReview,   \* history: "again" grades recorded on a review-phase state
    lastCall,         \* history: the last store call and its argument
    \* InfiniteReviewSession component
    mounted,          \* the component is mounted
    instance,         \* which mount of the component this is (0: never mounted)
    currentId,        \* useState currentId
    isGenerating,     \* useState isGenerating
    isHydrating,      \* useState isHydrating
    lastGenerationAt, \* useState lastGenerationAt
    learnRemaining,   \* useMemo learnRemaining, as of the last store change
    dueCount,         \* useMemo dueCount, as of the last store change
    pendingStateIds,  \* pendingStateIdsRef.current
    syncTimer,        \* syncTimerRef: the instant the armed timer is due, Null when none
    cardSyncTimer,    \* cardSyncTimerRef: likewise
    hydrateFetch,     \* the instance whose fetchReviewSnapshot is awaited, Null when none
    hasKey,           \* aiSettings.geminiKey || aiSettings.groqKey
    \* requests in flight and the server
    genRequests,      \* instance -> generateReviewCardBatch calls awaited
    requests,         \* saveReviewCardsBatch / saveReviewStates calls awaited
    remoteCards,      \* server: review_cards rows of the session, card id -> cardData
    remoteStates,     \* server: review_card_states rows, card id -> stateData
    unsynced,         \* history: ids graded in this mount and not yet written successfully
    genFailed,        \* history: a "Card generation failed" toast was shown
    genStarted,       \* history: generateReviewCardBatch calls made so far
    sinceFlush,       \* history: ids graded since the last flush of the state-sync timer
    nTicks,           \* history: the instants the clock has moved through
    \* the server's tables, as retention and the card cap read them
    cardCreatedAt,    \* review_cards: card id -> createdAt in days, NoRow when no row
    stateUpdatedAt,   \* review_card_states: card id -> updatedAt in days, NoRow when no row
    serverDay         \* the server's Date.now(), in days

storeVars == <<reviewCards, reviewCardState>>
histVars == <<nGraded, nAgainInReview, lastCall>>
uiVars == <<mounted, instance, currentId, isGenerating, isHydrating, lastGenerationAt,
            learnRemaining, dueCount, pendingStateIds, syncTimer, cardSyncTimer,
            hydrateFetch, hasKey>>
netVars == <<genRequests, requests, remoteCards, remoteStates, unsynced, genFailed,
            genStarted, sinceFlush, nTicks>>
tableVars == <<cardCreatedAt, stateUpdatedAt, serverDay>>
sessionVars == <<uiVars, netVars, tableVars>>
vars == <<now, storeVars, histVars, sessionVars>>

\* ------------------------------------------------------------ pure functions

initialReviewState ==
    [phase |-> "learn", seenCount |-> 0, dueAt |-> 0, interval |-> 0,
     repetition |-> 0, efactor |-> EFACTOR_DEFAULT, lapses |-> 0,
     lastReviewedAt |-> Undefined]

qualityFromGrade(grade) ==
    IF grade = "again" THEN 1
    ELSE IF grade = "hard" THEN 2
    ELSE IF grade = "good" THEN 4
    ELSE 5

RoundDiv_Floor(n, d) == n \div d

\* Math.round of a non-negative quotient n / d: floor(n / d + 0.5).
RoundDiv(n, d) == (2 * n + d) \div (2 * d)

Max(a, b) == IF a >= b THEN a ELSE b

hasGraduated_Late(seenCount) == seenCount >= GRADUATION_SEEN_COUNT + 1

hasGraduated(seenCount) == seenCount >= GRADUATION_SEEN_COUNT

\* part_019:707  if (quality < 3)
IsLapse(quality) == quality < 3

ClampEfactor_NoFloor(efactor) == efactor

\* part_019:722  if (efactor < 1.3) efactor = 1.3
ClampEfactor(efactor) == IF efactor < EFACTOR_FLOOR THEN EFACTOR_FLOOR ELSE efactor

\* part_019:721  efactor + (0.1 - (5 - quality) * (0.08 + (5 - quality) * 0.02)), in hundredths
NextEfactor(efactor, quality) ==
    ClampEfactor(efactor + (10 - (5 - quality) * (8 + (5 - quality) * 2)))

NextInterval_KeepOnLapse(prev, quality) ==
    IF IsLapse(quality) THEN prev.interval
    ELSE IF prev.repetition = 0 THEN 1
    ELSE IF prev.repetition = 1 THEN 6
    ELSE Max(1, RoundDiv(prev.interval * prev.efactor
                           * (IF quality = 5 THEN EASY_BONUS ELSE NO_BONUS),
                         100 * 100))

\* part_019:707-719, the interval after a review-phase grade
NextInterval(prev, quality) ==
    IF IsLapse(quality) THEN 1
    ELSE IF prev.repetition = 0 THEN 1
    ELSE IF prev.repetition = 1 THEN 6
    ELSE Max(1, RoundDiv(prev.interval * prev.efactor
                           * (IF quality = 5 THEN EASY_BONUS ELSE NO_BONUS),
                         100 * 100))

LearnGrade_DueUntouched(prev, t) ==
    LET seenCount == prev.seenCount + 1
        graduated == hasGraduated(seenCount)
    IN [prev EXCEPT
          !.phase = IF graduated THEN "review" ELSE "learn",
          !.seenCount = seenCount,
          !.dueAt = IF graduated THEN t + DAY_MS ELSE prev.dueAt,
          !.interval = IF graduated THEN 1 ELSE 0,
          !.repetition = IF graduated THEN 1 ELSE 0,
          !.lastReviewedAt = t]

\* part_019:684-701, a grade on a learning-phase state (the grade is not read)
LearnGrade(prev, t) ==
    LET seenCount == prev.seenCount + 1
        graduated == hasGraduated(seenCount)
    IN [prev EXCEPT
          !.phase = IF graduated THEN "review" ELSE "learn",
          !.seenCount = seenCount,
          !.dueAt = IF graduated THEN t + DAY_MS ELSE t,
          !.interval = IF graduated THEN 1 ELSE 0,
          !.repetition = IF graduated THEN 1 ELSE 0,
          !.lastReviewedAt = t]

\* part_019:703-738, a grade on a review-phase state
ReviewGrade(prev, grade, t) ==
    LET quality == qualityFromGrade(grade)
        interval == NextInterval(prev, quality)
    IN [prev EXCEPT
          !.phase = "review",
          !.interval = interval,
          !.repetition = IF IsLapse(quality) THEN 0 ELSE prev.repetition + 1,
          !.efactor = NextEfactor(prev.efactor, quality),
          !.lapses = IF IsLapse(quality) THEN prev.lapses + 1 ELSE prev.lapses,
          !.dueAt = t + interval * DAY_MS,
          !.lastReviewedAt = t]

\* part_019:680  state.reviewCardState[cardId] || initialReviewState()
PrevOrInitial(states, cardId) ==
    IF states[cardId] = NoState THEN initialReviewState ELSE states[cardId]

GradeState_Relearn(prev, grade, t) ==
    IF prev.phase = "learn" THEN LearnGrade(prev, t)
    ELSE IF grade = "again" THEN [ReviewGrade(prev, grade, t) EXCEPT !.phase = "learn"]
    ELSE ReviewGrade(prev, grade, t)

GradeState(prev, grade, t) ==
    IF prev.phase = "learn" THEN LearnGrade(prev, t) ELSE ReviewGrade(prev, grade, t)

recordReviewResult_RejectUnknown(states, cardId, grade, t) ==
    IF states[cardId] = NoState THEN states
    ELSE [states EXCEPT ![cardId] = GradeState(states[cardId], grade, t)]

\* The new reviewCardState after recordReviewResult(cardId, grade) at time t.
recordReviewResult(states, cardId, grade, t) ==
    [states EXCEPT ![cardId] = GradeState(PrevOrInitial(states, cardId), grade, t)]

\* ------------------------------------------------------------------ history

NoCall == [op |-> "none"]

GradedHistory(states, cardId, grade) ==
    LET prev == PrevOrInitial(states, cardId)
    IN /\ nGraded' = [nGraded EXCEPT ![cardId] = @ + 1]
       /\ nAgainInReview' =
            [nAgainInReview EXCEPT
               ![cardId] = IF prev.phase = "review" /\ grade = "again" THEN @ + 1 ELSE @]
       /\ lastCall' = [op |-> "grade", id |-> cardId, grade |-> grade, at |-> now,
                       hadState |-> states[cardId] # NoState]

\* The grade keeps the model inside its bounds: the number of review-phase
\* grades of one card and the interval (dueAt is a 32-bit quantity in TLC).
WithinGradeBounds(states, cardId, grade) ==
    LET prev == PrevOrInitial(states, cardId)
    IN prev.phase = "review" =>
         /\ nGraded[cardId] < GRADUATION_SEEN_COUNT + MaxReviewGrades
         /\ NextInterval(prev, qualityFromGrade(grade)) <= MaxInterval

\* The server's tables hold no row of the session.
NoRows == [id \in CardIds |-> NoRow]
TablesEmpty == cardCreatedAt = NoRows /\ stateUpdatedAt = NoRows /\ serverDay = 0

\* The component is not mounted and nothing is in flight.
SessionIdle ==
    /\ mounted = FALSE /\ instance = 0 /\ currentId = Null
    /\ isGenerating = FALSE /\ isHydrating = FALSE /\ lastGenerationAt = 0
    /\ learnRemaining = 0 /\ dueCount = 0
    /\ pendingStateIds = {} /\ syncTimer = Null /\ cardSyncTimer = Null
    /\ hydrateFetch = Null
    /\ genRequests = [i \in Instances |-> 0] /\ requests = {}
    /\ unsynced = {} /\ genFailed = FALSE /\ genStarted = 0 /\ sinceFlush = {}
    /\ nTicks = 0

\* ------------------------------------------------------- grading of one card

GradeInit ==
    /\ now = DAY_MS
    /\ reviewCards = [id \in CardIds |-> 1]
    /\ reviewCardState = [id \in CardIds |-> initialReviewState]
    /\ nGraded = [id \in CardIds |-> 0]
    /\ nAgainInReview = [id \in CardIds |-> 0]
    /\ lastCall = NoCall
    /\ TablesEmpty
    /\ SessionIdle /\ hasKey = FALSE
    /\ remoteCards = [id \in CardIds |-> NoCard]
    /\ remoteStates = [id \in CardIds |-> NoState]

Tick ==
    /\ now < DAY_MS * (1 + MaxDays)
    /\ now' = now + DAY_MS
    /\ UNCHANGED <<storeVars, histVars, sessionVars>>

GradeCard ==
    \E grade \in Grades :
      /\ WithinGradeBounds(reviewCardState, 1, grade)
      /\ reviewCardState' = recordReviewResult(reviewCardState, 1, grade, now)
      /\ GradedHistory(reviewCardState, 1, grade)
      /\ UNCHANGED <<now, reviewCards, sessionVars>>

GradeNext == GradeCard \/ Tick

GradeSpec == GradeInit /\ [][GradeNext]_vars

\* ------------------------------------------------------------ store actions
\* The reviewCards list is kept as its id -> content map: no store action or
\* selection reads the position of a card, and the batches handed to the
\* store carry distinct ids.

CardBatches == [CardIds -> Contents \cup {NoCard}]

RECURSIVE LearnTimes(_, _, _)
LearnTimes(st, n, t) == IF n = 0 THEN st ELSE LearnTimes(LearnGrade(st, t), n - 1, t)

\* States a server row can hold: results of grading, as saveReviewStates sent them.
AlmostGraduated == LearnTimes(initialReviewState, GRADUATION_SEEN_COUNT - 1, DAY_MS)
Graduated == LearnGrade(AlmostGraduated, DAY_MS)
SampleStates == {AlmostGraduated, Graduated}
StateBatches == [CardIds -> SampleStates \cup {NoState}]

Additions_All(cards, batch) ==
    {id \in CardIds : batch[id] # NoCard}

\* part_019:634-635 / 650-651  the batch without the ids already in the list
Additions(cards, batch) ==
    {id \in CardIds : batch[id] # NoCard /\ cards[id] = NoCard}

\* part_019:649-663 (and 633-647, the same code on seedCardsFromUnits(units))
UpsertCards(cards, batch) ==
    [id \in CardIds |-> IF id \in Additions(cards, batch) THEN batch[id] ELSE cards[id]]

UpsertStates_NoState(cards, states, batch) ==
    states

\* part_019:638-641 / 654-657  nextStates[card.id] = initialReviewState()
UpsertStates(cards, states, batch) ==
    [id \in CardIds |->
       IF id \in Additions(cards, batch) THEN initialReviewState ELSE states[id]]

\* part_019:666-671  byId: local cards first, then every remote card set over them
HydrateCards(cards, remote) ==
    [id \in CardIds |-> IF remote[id] # NoCard THEN remote[id] ELSE cards[id]]

HydrateStates_LocalWins(states, remote) ==
    [id \in CardIds |-> IF states[id] # NoState THEN states[id] ELSE remote[id]]

\* part_019:672-675  { ...state.reviewCardState, ...states }
HydrateStates(states, remote) ==
    [id \in CardIds |-> IF remote[id] # NoState THEN remote[id] ELSE states[id]]

\* The batch holds an id that the list already has.
Known(cards, batch) == \E id \in CardIds : batch[id] # NoCard /\ cards[id] # NoCard

StoreInit ==
    /\ now = DAY_MS
    /\ reviewCards = [id \in CardIds |-> IF id = 1 THEN 1 ELSE NoCard]
    /\ reviewCardState = [id \in CardIds |-> IF id = 1 THEN initialReviewState ELSE NoState]
    /\ nGraded = [id \in CardIds |-> 0]
    /\ nAgainInReview = [id \in CardIds |-> 0]
    /\ lastCall = NoCall
    /\ TablesEmpty
    /\ SessionIdle /\ hasKey = FALSE
    /\ remoteCards = [id \in CardIds |-> NoCard]
    /\ remoteStates = [id \in CardIds |-> NoState]

ensureReviewCardsFromUnits ==
    \E seed \in CardBatches :
      /\ reviewCards' = UpsertCards(reviewCards, seed)
      /\ reviewCardState' = UpsertStates(reviewCards, reviewCardState, seed)
      /\ lastCall' = [op |-> "ensure", known |-> Known(reviewCards, seed)]
      /\ UNCHANGED <<now, nGraded, nAgainInReview, sessionVars>>

addGeneratedReviewCards ==
    \E cards \in CardBatches :
      /\ reviewCards' = UpsertCards(reviewCards, cards)
      /\ reviewCardState' = UpsertStates(reviewCards, reviewCardState, cards)
      /\ lastCall' = [op |-> "generated", known |-> Known(reviewCards, cards)]
      /\ UNCHANGED <<now, nGraded, nAgainInReview, sessionVars>>

hydrateReviewFromServer ==
    \E cards \in CardBatches, states \in StateBatches :
      /\ reviewCards' = HydrateCards(reviewCards, cards)
      /\ reviewCardState' = HydrateStates(reviewCardState, states)
      /\ lastCall' = [op |-> "hydrate", states |-> states]
      /\ UNCHANGED <<now, nGraded, nAgainInReview, sessionVars>>

\* recordReviewResult as the store exposes it: any card id, any grade.
StoreGrade ==
    \E id \in CardIds, grade \in Grades :
      /\ nGraded[id] < MaxStoreGrades
      /\ WithinGradeBounds(reviewCardState, id, grade)
      /\ reviewCardState' = recordReviewResult(reviewCardState, id, grade, now)
      /\ GradedHistory(reviewCardState, id, grade)
      /\ UNCHANGED <<now, reviewCards, sessionVars>>

StoreNext ==
    \/ ensureReviewCardsFromUnits
    \/ addGeneratedReviewCards
    \/ hydrateReviewFromServer
    \/ StoreGrade

StoreSpec == StoreInit /\ [][StoreNext]_vars

\* ------------------------------------------------------------------ selection
\* InfiniteReviewSession.tsx

HasCard(cards) == {id \in CardIds : cards[id] # NoCard}

\* :46-49  st && st.phase === "learn" && st.seenCount < 10
learningCards(cards, states) ==
    {id \in HasCard(cards) :
       /\ states[id] # NoState
       /\ states[id].phase = "learn"
       /\ states[id].seenCount < LEARN_TARGET}

minSeen_Max(cards, states) ==
    CHOOSE m \in {states[id].seenCount : id \in learningCards(cards, states)} :
      \A id \in learningCards(cards, states) : m >= states[id].seenCount

\* :52  Math.min(...learningCards.map(seenCount))
minSeen(cards, states) ==
    CHOOSE m \in {states[id].seenCount : id \in learningCards(cards, states)} :
      \A id \in learningCards(cards, states) : m <= states[id].seenCount

dueCards_AllReview(cards, states, t) ==
    {id \in HasCard(cards) :
       /\ states[id] # NoState
       /\ states[id].phase = "review"}

\* :57-60  st && st.phase === "review" && st.dueAt <= now
dueCards(cards, states, t) ==
    {id \in HasCard(cards) :
       /\ states[id] # NoState
       /\ states[id].phase = "review"
       /\ states[id].dueAt <= t}

\* The first of the given cards in list order.
First(ids) == CHOOSE id \in ids : \A j \in ids : id <= j

Weight_NoBase(st, t) ==
    Max(0, t - (IF st.dueAt = 0 THEN t ELSE st.dueAt)) + st.lapses * (DAY_MS \div 2)

\* :27-31  1 + overdueDays + lapses * 0.5, in units of 1 / DAY_MS;
\* (st?.dueAt || now) takes a dueAt of 0 as now.
Weight(st, t) ==
    DAY_MS + Max(0, t - (IF st.dueAt = 0 THEN t ELSE st.dueAt)) + st.lapses * (DAY_MS \div 2)

\* :35  total = weighted.reduce((sum, item) => sum + item.weight, 0)
RECURSIVE TotalWeight(_, _, _)
TotalWeight(ids, states, t) ==
    IF ids = {} THEN 0
    ELSE Weight(states[First(ids)], t) + TotalWeight(ids \ {First(ids)}, states, t)

\* :37-40  for (item of weighted) { rand -= item.weight; if (rand <= 0) return item.card }
RECURSIVE Scan(_, _, _, _)
Scan(ids, states, t, rand) ==
    IF ids = {} THEN Null
    ELSE LET rest == rand - Weight(states[First(ids)], t)
         IN IF rest <= 0 THEN First(ids) ELSE Scan(ids \ {First(ids)}, states, t, rest)

\* :23-42  the card returned for the draw rand = Math.random() * total;
\* :41 returns the first card when the loop falls through.
weightedRandomByOverdue(ids, states, t, rand) ==
    IF Scan(ids, states, t, rand) = Null THEN First(ids) ELSE Scan(ids, states, t, rand)

\* :36  Math.random() * total is any value of [0, total).  The loop's result
\* changes only at the prefix sums of the weights, so the draws taken are 0
\* and the two sides of every prefix sum.
Draws(ids, states, t) ==
    LET sums == {TotalWeight({j \in ids : j <= id}, states, t) : id \in ids}
    IN {r \in {0} \cup sums \cup {c - 1 : c \in sums} :
          r = 0 \/ (r > 0 /\ r < TotalWeight(ids, states, t))}

\* :44-64  The cards getNextCard can return, over the values of Math.random().
getNextCard(cards, states, t) ==
    IF learningCards(cards, states) # {}
    THEN {id \in learningCards(cards, states) : states[id].seenCount = minSeen(cards, states)}
    ELSE IF dueCards(cards, states, t) = {} THEN {Null}
    ELSE {weightedRandomByOverdue(dueCards(cards, states, t), states, t, r) :
            r \in Draws(dueCards(cards, states, t), states, t)}

\* ------------------------------------------------------ selection on its own
\* States of a persisted store: results of grading in earlier visits.
Lapsed == ReviewGrade(Graduated, "again", DAY_MS)
SelectStates ==
    {initialReviewState, LearnTimes(initialReviewState, 3, DAY_MS), AlmostGraduated,
     Graduated, LearnGrade(LearnTimes(initialReviewState, GRADUATION_SEEN_COUNT - 1, 0), 0),
     Lapsed}

SelectInit ==
    /\ now = DAY_MS
    /\ reviewCards \in [CardIds -> {NoCard, 1}]
    /\ reviewCardState \in
         {st \in [CardIds -> SelectStates \cup {NoState}] :
            \A id \in CardIds : reviewCards[id] = NoCard => st[id] = NoState}
    /\ nGraded = [id \in CardIds |-> 0]
    /\ nAgainInReview = [id \in CardIds |-> 0]
    /\ lastCall = NoCall
    /\ TablesEmpty
    /\ SessionIdle /\ hasKey = FALSE
    /\ remoteCards = [id \in CardIds |-> NoCard]
    /\ remoteStates = [id \in CardIds |-> NoState]

\* :224-228  pickNext on the current store: setCurrentId(getNextCard(...)?.id || null)
pickNext ==
    /\ \E next \in getNextCard(reviewCards, reviewCardState, now) : currentId' = next
    /\ lastCall' = [op |-> "pick"]
    /\ UNCHANGED <<tableVars, now, storeVars, nGraded, nAgainInReview, mounted, instance,
                   isGenerating, isHydrating, lastGenerationAt, learnRemaining, dueCount, pendingStateIds,
                   syncTimer, cardSyncTimer, hydrateFetch, hasKey, netVars>>

\* A day passes between two picks.
SelectTick ==
    /\ now < DAY_MS * (1 + MaxDays)
    /\ now' = now + DAY_MS
    /\ lastCall' = [op |-> "tick"]
    /\ UNCHANGED <<storeVars, nGraded, nAgainInReview, sessionVars>>

SelectNext == pickNext \/ SelectTick

SelectSpec == SelectInit /\ [][SelectNext]_vars

\* :215-218  (phase ?? "learn") === "learn" && (seenCount ?? 0) < 10
LearnRemainingOf(cards, states) ==
    Cardinality({id \in HasCard(cards) :
                   \/ states[id] = NoState
                   \/ states[id].phase = "learn" /\ states[id].seenCount < LEARN_TARGET})

\* :219-222  (phase ?? "learn") === "review" && (dueAt ?? 0) <= Date.now()
DueCountOf(cards, states, t) ==
    Cardinality({id \in HasCard(cards) :
                   /\ states[id] # NoState
                   /\ states[id].phase = "review"
                   /\ states[id].dueAt <= t})

\* --------------------------------------------------------- render and effects
\* What one render of the component closes over.
View ==
    [cards |-> reviewCards, states |-> reviewCardState, cur |-> currentId,
     lr |-> learnRemaining, dc |-> dueCount, gen |-> isGenerating,
     lastGen |-> lastGenerationAt, hyd |-> isHydrating, cst |-> cardSyncTimer,
     started |-> 0]

\* :210-213  reviewCards.find((c) => c.id === currentId) || null
currentCard(v) == IF v.cur # Null /\ v.cards[v.cur] # NoCard THEN v.cur ELSE Null

GuardPasses_NoCooldown(v, t) ==
    /\ ~v.gen
    /\ hasKey

\* :236-239  the three early returns of maybeGenerateBatch
GuardPasses(v, t) ==
    /\ ~(t - v.lastGen < GENERATION_COOLDOWN_MS)
    /\ ~v.gen
    /\ hasKey

\* The model follows a bounded number of generations.
MayStart(v) == genStarted + v.started < MaxGenerations

Commit_RetryOnSettle(prev, h, changed, first, t) ==
    LET lr2 == IF changed \/ first THEN LearnRemainingOf(h.cards, h.states) ELSE h.lr
        dc2 == IF changed \/ first THEN DueCountOf(h.cards, h.states, t) ELSE h.dc
        cc == currentCard(h)
        depsChanged == \/ first \/ cc # currentCard(prev) \/ lr2 # prev.lr \/ dc2 # prev.dc
                       \/ h.gen # prev.gen
        starts == /\ depsChanged
                  /\ cc = Null /\ lr2 = 0 /\ dc2 = 0
                  /\ GuardPasses(h, t)
                  /\ MayStart(h)
        picks == IF (changed \/ first) /\ cc = Null
                 THEN getNextCard(h.cards, h.states, t) ELSE {h.cur}
        arm == /\ \/ first
                  \/ h.hyd # prev.hyd
                  \/ Cardinality(HasCard(h.cards)) # Cardinality(HasCard(prev.cards))
               /\ ~h.hyd
    IN {[h EXCEPT !.lr = lr2, !.dc = dc2, !.cur = c,
                  !.gen = h.gen \/ starts,
                  !.lastGen = IF starts THEN t ELSE h.lastGen,
                  !.started = h.started + (IF starts THEN 1 ELSE 0),
                  !.cst = IF arm THEN t + CARD_SYNC_DEBOUNCE_MS ELSE h.cst] : c \in picks}

\* The commit that follows a handler.  prev is the previous render, h the
\* state the handler left, changed says that the store objects were replaced,
\* first that this is the mount.  The memos (:215-222) are recomputed when the
\* store changed; the pick effect (:230-233) runs when the store changed and
\* picks when there is no current card; the auto-generate effect (:272-278)
\* runs when one of currentCard, learnRemaining, dueCount changed; the card
\* sync effect (:198-208) runs when isHydrating or the card count changed.
Commit(prev, h, changed, first, t) ==
    LET lr2 == IF changed \/ first THEN LearnRemainingOf(h.cards, h.states) ELSE h.lr
        dc2 == IF changed \/ first THEN DueCountOf(h.cards, h.states, t) ELSE h.dc
        cc == currentCard(h)
        depsChanged == first \/ cc # currentCard(prev) \/ lr2 # prev.lr \/ dc2 # prev.dc
        starts == /\ depsChanged
                  /\ cc = Null /\ lr2 = 0 /\ dc2 = 0
                  /\ GuardPasses(h, t)
                  /\ MayStart(h)
        picks == IF (changed \/ first) /\ cc = Null
                 THEN getNextCard(h.cards, h.states, t) ELSE {h.cur}
        arm == /\ \/ first
                  \/ h.hyd # prev.hyd
                  \/ Cardinality(HasCard(h.cards)) # Cardinality(HasCard(prev.cards))
               /\ ~h.hyd
    IN {[h EXCEPT !.lr = lr2, !.dc = dc2, !.cur = c,
                  !.gen = h.gen \/ starts,
                  !.lastGen = IF starts THEN t ELSE h.lastGen,
                  !.started = h.started + (IF starts THEN 1 ELSE 0),
                  !.cst = IF arm THEN t + CARD_SYNC_DEBOUNCE_MS ELSE h.cst] : c \in picks}

SetView(v, inst) ==
    /\ reviewCards' = v.cards
    /\ reviewCardState' = v.states
    /\ currentId' = v.cur
    /\ learnRemaining' = v.lr
    /\ dueCount' = v.dc
    /\ isGenerating' = v.gen
    /\ lastGenerationAt' = v.lastGen
    /\ isHydrating' = v.hyd
    /\ cardSyncTimer' = v.cst
    /\ genRequests' = [genRequests EXCEPT ![inst] = @ + v.started]
    /\ genStarted' = genStarted + v.started

\* A handler of the mounted component left h: render and run the effects.
Rerender(h, changed) == \E v \in Commit(View, h, changed, FALSE, now) : SetView(v, instance)

\* ------------------------------------------------------------------ requests
NoCards == [id \in CardIds |-> NoCard]
NoStates == [id \in CardIds |-> NoState]

\* An awaited saveReviewCardsBatch or saveReviewStates call: its body, the
\* code that runs when it settles, and the component instance that made it.
Request(kind, cards, states, cont, owner) ==
    [kind |-> kind, cards |-> cards, states |-> states, cont |-> cont, owner |-> owner]

\* server/storage.ts:158-171  insert ... onConflictDoUpdate set cardData
upsertReviewCards(rows, cards) ==
    [id \in CardIds |-> IF cards[id] # NoCard THEN cards[id] ELSE rows[id]]

\* server/storage.ts:205-216  insert ... onConflictDoUpdate set stateData
upsertReviewCardStates(rows, states) ==
    [id \in CardIds |-> IF states[id] # NoState THEN states[id] ELSE rows[id]]

Subset_All(states, ids) == states

\* :254-258 / :290  the latest states of the given ids, those without a state left out
Subset(states, ids) ==
    [id \in CardIds |-> IF id \in ids THEN states[id] ELSE NoState]

\* ------------------------------------------------------------------- session
\* The store as zustand's persist middleware restored it: states that grading
\* produced in an earlier visit.
GraduatedDue == LearnGrade(LearnTimes(initialReviewState, GRADUATION_SEEN_COUNT - 1, 0), 0)
PersistedStates == {initialReviewState, AlmostGraduated, Graduated, GraduatedDue}

\* The batches a visit hands to the store: seed cards of the units and
\* generated cards, possibly with ids the store already has.
SessionBatches == {c \in CardBatches : \A id \in CardIds : c[id] \in {NoCard, 1}}

SessionInit ==
    /\ now = DAY_MS
    /\ reviewCards = [id \in CardIds |-> IF id = 1 THEN 1 ELSE NoCard]
    /\ reviewCardState \in
         {s \in [CardIds -> PersistedStates \cup {NoState}] :
            \A id \in CardIds : (s[id] = NoState) <=> (reviewCards[id] = NoCard)}
    /\ nGraded = [id \in CardIds |-> 0]
    /\ nAgainInReview = [id \in CardIds |-> 0]
    /\ lastCall = NoCall
    /\ TablesEmpty
    /\ SessionIdle
    /\ hasKey \in BOOLEAN
    \* the server holds nothing for the session yet, or what the last visit left
    /\ \/ remoteCards = NoCards /\ remoteStates = NoStates
       \/ remoteCards = reviewCards /\ remoteStates = reviewCardState

\* :165-195, :230-233, :272-278  the first render and its effects:
\* ensureReviewCardsFromUnits(units), hydrate(), pickNext and auto-generate run
\* on the first render's closure; ensureReviewCardsFromUnits' store change is
\* rendered after them.
Mount ==
    /\ ~mounted
    /\ instance < MaxMounts
    /\ \E seed \in {c \in SessionBatches : c[1] # NoCard} :
         LET fresh == [cards |-> reviewCards, states |-> reviewCardState, cur |-> Null,
                       lr |-> 0, dc |-> 0, gen |-> FALSE, lastGen |-> 0, hyd |-> TRUE,
                       cst |-> Null, started |-> 0]
         IN \E v1 \in Commit(fresh, fresh, FALSE, TRUE, now) :
              \E v2 \in Commit(v1,
                               [v1 EXCEPT !.cards = UpsertCards(reviewCards, seed),
                                          !.states = UpsertStates(reviewCards, reviewCardState, seed)],
                               Additions(reviewCards, seed) # {}, FALSE, now) :
                SetView(v2, instance + 1)
    /\ mounted' = TRUE
    /\ instance' = instance + 1
    /\ hydrateFetch' = instance + 1
    /\ pendingStateIds' = {}
    /\ syncTimer' = Null
    /\ unsynced' = {}
    /\ sinceFlush' = {}
    /\ lastCall' = lastCall
    /\ UNCHANGED <<tableVars, now, nGraded, nAgainInReview, hasKey, requests, remoteCards,
                   remoteStates, genFailed, nTicks>>

\* :190-194  the cleanup: cancelled = true, both timers cleared; the
\* component's state and refs go with it.
Unmount ==
    /\ mounted
    /\ mounted' = FALSE
    /\ hydrateFetch' = Null
    /\ syncTimer' = Null
    /\ cardSyncTimer' = Null
    /\ pendingStateIds' = {}
    /\ currentId' = Null
    /\ isGenerating' = FALSE
    /\ isHydrating' = FALSE
    /\ lastGenerationAt' = 0
    /\ learnRemaining' = 0
    /\ dueCount' = 0
    /\ lastCall' = lastCall
    /\ UNCHANGED <<tableVars, now, storeVars, nGraded, nAgainInReview, instance, hasKey, netVars>>

RECURSIVE Total(_, _)
Total(f, ids) ==
    IF ids = {} THEN 0
    ELSE LET id == CHOOSE x \in ids : TRUE IN f[id] + Total(f, ids \ {id})

\* Room for one more awaited save.
Slot == Cardinality(requests) < MaxInFlight

WithinSessionBounds(states, cardId, grade) ==
    /\ Total(nGraded, CardIds) < MaxSessionGrades
    /\ PrevOrInitial(states, cardId).phase = "review" =>
         NextInterval(PrevOrInitial(states, cardId), qualityFromGrade(grade)) <= MaxInterval

\* :280-299  handleGrade; pickNext (:224-228) reads reviewCards and
\* reviewCardState of the render the handler was created in.
handleGrade ==
    /\ mounted
    /\ ~isHydrating
    /\ currentCard(View) # Null
    /\ \E grade \in Grades :
         /\ WithinSessionBounds(reviewCardState, currentId, grade)
         /\ \E next \in getNextCard(reviewCards, reviewCardState, now) :
              Rerender([View EXCEPT
                          !.states = recordReviewResult(reviewCardState, currentId, grade, now),
                          !.cur = next],
                       TRUE)
         /\ nGraded' = [nGraded EXCEPT ![currentId] = @ + 1]
    /\ UNCHANGED <<tableVars, nAgainInReview, lastCall>>
    /\ pendingStateIds' = pendingStateIds \cup {currentId}
    /\ syncTimer' = now + SYNC_DEBOUNCE_MS
    /\ unsynced' = unsynced \cup {currentId}
    /\ sinceFlush' = sinceFlush \cup {currentId}
    /\ UNCHANGED <<tableVars, now, mounted, instance, hydrateFetch, hasKey, requests, remoteCards,
                   remoteStates, genFailed, nTicks>>

\* The component instance that made a call is still the mounted one: its
\* setState calls take effect and its hydrate closure is not cancelled.
Alive(owner) == mounted /\ owner = instance

SetRequests(v, inst, done) ==
    /\ genRequests' = [j \in Instances |->
                         genRequests[j] + (IF j = inst THEN v.started ELSE 0)
                                        - (IF j = done THEN 1 ELSE 0)]
    /\ genStarted' = genStarted + v.started

\* A promise settled and its continuation left h (the store as cards2,
\* states2): the mounted component renders; without one only the store moves.
Settle(h, changed, done) ==
    IF mounted
    THEN \E v \in Commit(View, h, changed, FALSE, now) :
           /\ reviewCards' = v.cards
           /\ reviewCardState' = v.states
           /\ currentId' = v.cur
           /\ learnRemaining' = v.lr
           /\ dueCount' = v.dc
           /\ isGenerating' = v.gen
           /\ lastGenerationAt' = v.lastGen
           /\ isHydrating' = v.hyd
           /\ cardSyncTimer' = v.cst
           /\ SetRequests(v, instance, done)
    ELSE /\ reviewCards' = h.cards
         /\ reviewCardState' = h.states
         /\ SetRequests(h, instance, done)
         /\ UNCHANGED <<tableVars, currentId, learnRemaining, dueCount, isGenerating,
                        lastGenerationAt, isHydrating, cardSyncTimer>>

\* :285-297  the debounced flush
SyncTimerFire ==
    /\ syncTimer # Null
    /\ now >= syncTimer
    /\ Slot
    /\ syncTimer' = Null
    /\ pendingStateIds' = {}
    /\ LET payload == Subset(reviewCardState, pendingStateIds)
       IN requests' = IF pendingStateIds = {} \/ payload = NoStates THEN requests
                      ELSE requests \cup {Request("states", NoCards, payload, "none", instance)}
    /\ sinceFlush' = {}
    /\ lastCall' = lastCall
    /\ UNCHANGED <<tableVars, now, storeVars, nGraded, nAgainInReview, mounted, instance, currentId,
                   isGenerating, isHydrating, lastGenerationAt, learnRemaining, dueCount,
                   cardSyncTimer, hydrateFetch, hasKey, genRequests, remoteCards,
                   remoteStates, unsynced, genFailed, genStarted, nTicks>>

\* :201-207  the debounced card-metadata write
CardSyncTimerFire ==
    /\ cardSyncTimer # Null
    /\ now >= cardSyncTimer
    /\ Slot
    /\ cardSyncTimer' = Null
    /\ requests' = requests \cup {Request("cards", reviewCards, NoStates, "none", instance)}
    /\ lastCall' = lastCall
    /\ UNCHANGED <<tableVars, now, storeVars, nGraded, nAgainInReview, mounted, instance, currentId,
                   isGenerating, isHydrating, lastGenerationAt, learnRemaining, dueCount,
                   pendingStateIds, syncTimer, hydrateFetch, hasKey, genRequests,
                   remoteCards, remoteStates, unsynced, genFailed, genStarted, sinceFlush,
                   nTicks>>

RequestDone_ClearsPending ==
    \E req \in requests, ok \in BOOLEAN :
      LET subset == Subset(reviewCardState, HasCard(req.cards))
          follow ==
            IF ~ok THEN {}
            ELSE IF req.cont = "bootStates"
            THEN {Request("states", NoCards, req.states, "bootEnd", req.owner)}
            ELSE IF req.cont = "genStates" /\ subset # NoStates
            THEN {Request("states", NoCards, subset, "genEnd", req.owner)}
            ELSE {}
          endHyd == follow = {} /\ req.cont \in {"bootStates", "bootEnd"} /\ Alive(req.owner)
          endGen == follow = {} /\ req.cont \in {"genStates", "genEnd"} /\ Alive(req.owner)
      IN /\ requests' = (requests \ {req}) \cup follow
         /\ remoteCards' = IF ok /\ req.kind = "cards"
                           THEN upsertReviewCards(remoteCards, req.cards) ELSE remoteCards
         /\ remoteStates' = IF ok /\ req.kind = "states"
                            THEN upsertReviewCardStates(remoteStates, req.states) ELSE remoteStates
         /\ unsynced' = IF ok /\ req.kind = "states"
                        THEN {id \in unsynced : req.states[id] # reviewCardState[id]}
                        ELSE unsynced
         /\ lastCall' = lastCall
         /\ Settle([View EXCEPT !.hyd = IF endHyd THEN FALSE ELSE @,
                                !.gen = IF endGen THEN FALSE ELSE @], FALSE, -1)
         /\ pendingStateIds' = IF req.kind = "states" /\ req.cont = "none"
                                THEN {} ELSE pendingStateIds
         /\ UNCHANGED <<tableVars, now, nGraded, nAgainInReview, mounted, instance,
                        syncTimer, hydrateFetch, hasKey, genFailed, sinceFlush, nTicks>>

\* A saveReviewCardsBatch / saveReviewStates call settles: the server applied
\* it (ok) or the call threw.  Then the code after the await runs:
\*   bootStates  :181      the bootstrap's saveReviewStates, then :186
\*   bootEnd     :186      finally: setIsHydrating(false) unless cancelled
\*   genStates   :253-261  saveReviewStates of the new cards' states, then :268
\*   genEnd      :268      finally: setIsGenerating(false)
\*   none        :294-296, :204-206  the error is swallowed
RequestDone ==
    \E req \in requests, ok \in BOOLEAN :
      LET subset == Subset(reviewCardState, HasCard(req.cards))
          follow ==
            IF ~ok THEN {}
            ELSE IF req.cont = "bootStates"
            THEN {Request("states", NoCards, req.states, "bootEnd", req.owner)}
            ELSE IF req.cont = "genStates" /\ subset # NoStates
            THEN {Request("states", NoCards, subset, "genEnd", req.owner)}
            ELSE {}
          endHyd == follow = {} /\ req.cont \in {"bootStates", "bootEnd"} /\ Alive(req.owner)
          endGen == follow = {} /\ req.cont \in {"genStates", "genEnd"} /\ Alive(req.owner)
      IN /\ requests' = (requests \ {req}) \cup follow
         /\ remoteCards' = IF ok /\ req.kind = "cards"
                           THEN upsertReviewCards(remoteCards, req.cards) ELSE remoteCards
         /\ remoteStates' = IF ok /\ req.kind = "states"
                            THEN upsertReviewCardStates(remoteStates, req.states) ELSE remoteStates
         /\ unsynced' = IF ok /\ req.kind = "states"
                        THEN {id \in unsynced : req.states[id] # reviewCardState[id]}
                        ELSE unsynced
         /\ lastCall' = lastCall
         /\ Settle([View EXCEPT !.hyd = IF endHyd THEN FALSE ELSE @,
                                !.gen = IF endGen THEN FALSE ELSE @], FALSE, -1)
         /\ UNCHANGED <<tableVars, now, nGraded, nAgainInReview, mounted, instance, pendingStateIds,
                        syncTimer, hydrateFetch, hasKey, genFailed, sinceFlush, nTicks>>

HydrateFetchDone_AlwaysBootstrap ==
    /\ hydrateFetch # Null
    /\ Slot
    /\ hydrateFetch' = Null
    /\ \E ok \in BOOLEAN :
         LET cards2 == IF ok THEN HydrateCards(reviewCards, remoteCards) ELSE reviewCards
             states2 == IF ok THEN HydrateStates(reviewCardState, remoteStates)
                        ELSE reviewCardState
             boot == ok
         IN /\ requests' = IF boot
                           THEN requests \cup
                                  {Request("cards", cards2, states2, "bootStates", instance)}
                           ELSE requests
            /\ Settle([View EXCEPT !.cards = cards2, !.states = states2, !.hyd = boot], ok, -1)
            /\ lastCall' = [op |-> "snapshot", ok |-> ok]
    /\ UNCHANGED <<tableVars, now, nGraded, nAgainInReview, mounted, instance, pendingStateIds,
                   syncTimer, hasKey, remoteCards, remoteStates, unsynced, genFailed,
                   sinceFlush, nTicks>>

\* :171-188  fetchReviewSnapshot settles for the instance that is still mounted
HydrateFetchDone ==
    /\ hydrateFetch # Null
    /\ Slot
    /\ hydrateFetch' = Null
    /\ \E ok \in BOOLEAN :
         LET cards2 == IF ok THEN HydrateCards(reviewCards, remoteCards) ELSE reviewCards
             states2 == IF ok THEN HydrateStates(reviewCardState, remoteStates)
                        ELSE reviewCardState
             boot == ok /\ remoteCards = NoCards
         IN /\ requests' = IF boot
                           THEN requests \cup
                                  {Request("cards", cards2, states2, "bootStates", instance)}
                           ELSE requests
            /\ Settle([View EXCEPT !.cards = cards2, !.states = states2, !.hyd = boot], ok, -1)
            /\ lastCall' = [op |-> "snapshot", ok |-> ok]
    /\ UNCHANGED <<tableVars, now, nGraded, nAgainInReview, mounted, instance, pendingStateIds,
                   syncTimer, hasKey, remoteCards, remoteStates, unsynced, genFailed,
                   sinceFlush, nTicks>>

\* :327-335  a click on the "Generate 5 More Cards" button, rendered when
\* there is no current card, no generation and a key: maybeGenerateBatch
\* (:235-241) returns on the cooldown or starts a generation.
ManualGenerate ==
    /\ mounted
    /\ ~isHydrating
    /\ currentCard(View) = Null
    /\ ~isGenerating
    /\ hasKey
    /\ GuardPasses(View, now) => MayStart(View)
    /\ LET n == IF GuardPasses(View, now) THEN 1 ELSE 0
       IN /\ lastGenerationAt' = IF n = 1 THEN now ELSE lastGenerationAt
          /\ isGenerating' = (n = 1)
          /\ genRequests' = [genRequests EXCEPT ![instance] = @ + n]
          /\ genStarted' = genStarted + n
          /\ lastCall' = [op |-> "generate", started |-> (n = 1), at |-> now]
    /\ UNCHANGED <<tableVars, now, storeVars, nGraded, nAgainInReview, mounted, instance, currentId,
                   isHydrating, learnRemaining, dueCount, pendingStateIds, syncTimer,
                   cardSyncTimer, hydrateFetch, hasKey, requests, remoteCards,
                   remoteStates, unsynced, genFailed, sinceFlush, nTicks>>

\* :243-269  generateReviewCardBatch settles for the instance that called it
GenDone ==
    \E i \in Instances :
      /\ genRequests[i] > 0
      /\ Slot
      /\ \/ \* :244-249  result.error: the toast, then finally
            /\ genFailed' = TRUE
            /\ requests' = requests
            /\ lastCall' = lastCall
            /\ Settle([View EXCEPT !.gen = IF Alive(i) THEN FALSE ELSE @], FALSE, i)
         \/ \* :251-252  addGeneratedReviewCards(result.cards), saveReviewCardsBatch
            \E batch \in SessionBatches \ {NoCards} :
              /\ genFailed' = genFailed
              /\ requests' = requests \cup {Request("cards", batch, NoStates, "genStates", i)}
              /\ lastCall' = lastCall
              /\ Settle([View EXCEPT !.cards = UpsertCards(reviewCards, batch),
                                     !.states = UpsertStates(reviewCards, reviewCardState, batch)],
                        Additions(reviewCards, batch) # {}, i)
      /\ UNCHANGED <<tableVars, now, nGraded, nAgainInReview, mounted, instance, pendingStateIds,
                     syncTimer, hydrateFetch, hasKey, remoteCards, remoteStates, unsynced,
                     sinceFlush, nTicks>>

\* Time is read only in comparisons with these instants, so it moves from
\* one of them to the next.
Deadlines ==
    ({syncTimer, cardSyncTimer} \ {Null})
      \cup (IF lastGenerationAt > 0 THEN {lastGenerationAt + GENERATION_COOLDOWN_MS} ELSE {})
      \cup {reviewCardState[id].dueAt : id \in {j \in CardIds : reviewCardState[j] # NoState}}

Horizon == DAY_MS * (1 + MaxDays)

TimePasses ==
    /\ nTicks < MaxTicks
    /\ nTicks' = nTicks + 1
    /\ \E t \in Deadlines : t > now /\ t <= Horizon /\ now' = t
    /\ UNCHANGED <<tableVars, storeVars, histVars, uiVars, genRequests, requests, remoteCards,
                   remoteStates, unsynced, genFailed, genStarted, sinceFlush>>

\* One visit of the review page.
Next ==
    \/ Mount
    \/ handleGrade
    \/ ManualGenerate
    \/ SyncTimerFire
    \/ CardSyncTimerFire
    \/ RequestDone
    \/ HydrateFetchDone
    \/ GenDone
    \/ TimePasses

Spec == SessionInit /\ [][Next]_vars

\* The learner leaves the review page and comes back while calls are awaited.
RevisitNext ==
    \/ Mount
    \/ Unmount
    \/ handleGrade
    \/ RequestDone
    \/ HydrateFetchDone
    \/ GenDone

RevisitSpec == SessionInit /\ [][RevisitNext]_vars

\* --------------------------------------------------------------------- server
\* server/storage.ts, DatabaseStorage: the review tables of one session.  A row
\* is kept as the timestamp that retention and the card cap read; cardData
\* and stateData are read by neither.

HasRow(rows) == {id \in CardIds : rows[id] # NoRow}

DeleteRows(rows, ids) == [id \in CardIds |-> IF id \in ids THEN NoRow ELSE rows[id]]

\* storage.ts:44  cutoff = Date.now() - REVIEW_RETENTION_DAYS days
Cutoff(t) == t - REVIEW_RETENTION_DAYS

\* storage.ts:46-48 / 50-52  delete ... where lt(updatedAt | createdAt, cutoff)
DeleteOlder(rows, cutoff) == DeleteRows(rows, {id \in HasRow(rows) : rows[id] < cutoff})

\* storage.ts:158-171  insert; on conflict the row keeps its createdAt
InsertCards(rows, data, t) ==
    [id \in CardIds |-> IF id \in data /\ rows[id] = NoRow THEN t ELSE rows[id]]

\* storage.ts:205-216  insert; on conflict updatedAt = new Date()
UpsertStateRows(rows, data, t) ==
    [id \in CardIds |-> IF id \in data THEN t ELSE rows[id]]

ToDrop_Newest(rows, maxCards) ==
    IF Cardinality(HasRow(rows)) <= maxCards THEN {{}}
    ELSE {drop \in SUBSET HasRow(rows) :
            /\ Cardinality(drop) = Cardinality(HasRow(rows)) - maxCards
            /\ \A d \in drop, k \in HasRow(rows) \ drop : rows[d] >= rows[k]}

\* storage.ts:175-183  all.slice(maxCards) of the rows ordered by createdAt
\* descending, when all.length > maxCards: the sets of rows it can be, rows
\* of equal createdAt coming in any order.
ToDrop(rows, maxCards) ==
    IF Cardinality(HasRow(rows)) <= maxCards THEN {{}}
    ELSE {drop \in SUBSET HasRow(rows) :
            /\ Cardinality(drop) = Cardinality(HasRow(rows)) - maxCards
            /\ \A d \in drop, k \in HasRow(rows) \ drop : rows[d] <= rows[k]}

\* The card ids of a request body: the routes refuse an empty payload
\* (routes.ts:154, :192).
Payloads == (SUBSET CardIds) \ {{}}

ServerInit ==
    /\ now = DAY_MS
    /\ reviewCards = NoCards
    /\ reviewCardState = NoStates
    /\ nGraded = [id \in CardIds |-> 0]
    /\ nAgainInReview = [id \in CardIds |-> 0]
    /\ lastCall = NoCall
    /\ TablesEmpty
    /\ SessionIdle /\ hasKey = FALSE
    /\ remoteCards = NoCards
    /\ remoteStates = NoStates

\* storage.ts:43-53  pruneReviewData on both tables
pruneReviewData ==
    /\ stateUpdatedAt' = DeleteOlder(stateUpdatedAt, Cutoff(serverDay))
    /\ cardCreatedAt' = DeleteOlder(cardCreatedAt, Cutoff(serverDay))

\* storage.ts:146-153  GET /api/review/cards/:sessionId
getReviewCards ==
    /\ pruneReviewData
    /\ lastCall' = [op |-> "getReviewCards"]
    /\ UNCHANGED <<now, storeVars, nGraded, nAgainInReview, uiVars, netVars, serverDay>>

\* storage.ts:197-200  GET /api/review/state/:sessionId
getReviewCardStates ==
    /\ pruneReviewData
    /\ lastCall' = [op |-> "getReviewCardStates"]
    /\ UNCHANGED <<now, storeVars, nGraded, nAgainInReview, uiVars, netVars, serverDay>>

\* storage.ts:155-195  POST /api/review/cards/batch: insert, prune, cap; the
\* closing getReviewCards prunes again at the same instant.
SaveCardsBatch ==
    \E data \in Payloads, maxCards \in 0 .. NumCards :
      LET cards == DeleteOlder(InsertCards(cardCreatedAt, data, serverDay), Cutoff(serverDay))
          states == DeleteOlder(stateUpdatedAt, Cutoff(serverDay))
      IN \E drop \in ToDrop(cards, maxCards) :
           /\ cardCreatedAt' = DeleteRows(cards, drop)
           /\ stateUpdatedAt' = DeleteRows(states, drop)
           /\ lastCall' = [op |-> "saveCardsBatch", data |-> data, maxCards |-> maxCards,
                           dropped |-> drop]
           /\ UNCHANGED <<now, storeVars, nGraded, nAgainInReview, uiVars, netVars, serverDay>>

\* storage.ts:202-219  POST /api/review/state: upsert, then getReviewCardStates
\* prunes.  The card row of a state is not looked up.
SaveStates ==
    \E data \in Payloads :
      /\ stateUpdatedAt' = DeleteOlder(UpsertStateRows(stateUpdatedAt, data, serverDay),
                                       Cutoff(serverDay))
      /\ cardCreatedAt' = DeleteOlder(cardCreatedAt, Cutoff(serverDay))
      /\ lastCall' = [op |-> "saveStates", data |-> data]
      /\ UNCHANGED <<now, storeVars, nGraded, nAgainInReview, uiVars, netVars, serverDay>>

\* Time passes on the server between two requests.
ServerTick ==
    /\ serverDay < MaxServerTicks * TickDays
    /\ serverDay' = serverDay + TickDays
    /\ lastCall' = [op |-> "tick"]
    /\ UNCHANGED <<now, storeVars, nGraded, nAgainInReview, uiVars, netVars,
                   cardCreatedAt, stateUpdatedAt>>

ServerNext ==
    \/ getReviewCards
    \/ getReviewCardStates
    \/ SaveCardsBatch
    \/ SaveStates
    \/ ServerTick

ServerSpec == ServerInit /\ [][ServerNext]_vars

\* ------------------------------------------------------------------ claims

\* C1: a card that starts in the initial Learning state is in Review with
\* interval 1 and repetition 1 after exactly 10 grades of any kind, and is
\* still in Learning with seenCount equal to the number of grades after 9 or
\* fewer grades.
C1_Graduation ==
    \A id \in CardIds :
      LET st == reviewCardState[id]
      IN /\ nGraded[id] < 10 => st.phase = "learn" /\ st.seenCount = nGraded[id]
         /\ nGraded[id] = 10 =>
              st.phase = "review" /\ st.interval = 1 /\ st.repetition = 1

C1_Witness ==
    /\ nGraded[1] = 10
    /\ reviewCardState[1].phase = "review"
    /\ reviewCardState[1].dueAt = lastCall.at + DAY_MS

\* C10: the ease factor of a card is never below 1.3.
C10_EaseFloor ==
    \A id \in CardIds :
      reviewCardState[id] # NoState => reviewCardState[id].efactor >= EFACTOR_FLOOR

\* Two "again" grades in review would take 2.5 to 1.42 without the floor.
C10_Witness ==
    /\ nAgainInReview[1] >= 3
    /\ reviewCardState[1].efactor = EFACTOR_FLOOR

\* C5: the lapse branch of a review-phase grade is taken exactly for "again":
\* lapses equals the number of "again" grades recorded in review phase, and
\* "hard", "good" and "easy" never increment it.
C5_LapsesCountAgain ==
    \A id \in CardIds :
      reviewCardState[id] # NoState => reviewCardState[id].lapses = nAgainInReview[id]

\* C4: every card id in the local card list has a CardState.
C4_EveryCardHasState ==
    \A id \in CardIds : reviewCards[id] # NoCard => reviewCardState[id] # NoState

\* C8: the content of a card in the local card list never changes.
C8_ContentImmutable ==
    [][\A id \in CardIds : reviewCards[id] # NoCard => reviewCards'[id] = reviewCards[id]]_vars

\* C9 (as claimed): grading a card id that has no CardState leaves the
\* CardState map unchanged.
C9_UnknownIdRejected ==
    [][\A id \in CardIds :
         (nGraded'[id] = nGraded[id] + 1 /\ reviewCardState[id] = NoState)
           => reviewCardState' = reviewCardState]_vars

\* C9 (amended): grading a card id that has no CardState stores, for that id,
\* the initial Learning state graded once, and changes no other id's state.
C9_UnknownIdGradedAsInitial ==
    [][\A id \in CardIds :
         (nGraded'[id] = nGraded[id] + 1 /\ reviewCardState[id] = NoState)
           => reviewCardState' =
                [reviewCardState EXCEPT
                   ![id] = [initialReviewState EXCEPT
                              !.seenCount = 1, !.dueAt = now, !.lastReviewedAt = now]]]_vars

C9_Witness ==
    /\ lastCall.op = "grade"
    /\ ~lastCall.hadState
    /\ reviewCardState[lastCall.id].phase = "learn"
    /\ reviewCardState[lastCall.id].seenCount = 1

\* C2: after a grade, the card presented next is one that getNextCard permits
\* on the store state that already holds the grade just recorded.
C2_NextFromPostGradeState ==
    [][(\E id \in CardIds : nGraded'[id] # nGraded[id])
         => currentId' \in getNextCard(reviewCards', reviewCardState', now')]_vars

\* The ids carried by the saveReviewStates calls that are awaited.
InFlightStateIds ==
    {id \in CardIds : \E req \in requests : req.kind = "states" /\ req.states[id] # NoState}

\* C3: an id whose graded state no successful write has carried stays in the
\* set of ids the next debounced flush sends, unless a write carrying it is
\* being awaited.
C3_UnsyncedStayPending ==
    mounted => unsynced \subseteq (pendingStateIds \cup InFlightStateIds)

\* C6: at most one generateBatch request is outstanding at any time.
C6_OneGenerationOutstanding ==
    Total(genRequests, Instances) <= 1

\* Nothing is left that runs without the learner: no timer is armed and no
\* call is awaited.
Quiescent ==
    /\ syncTimer = Null
    /\ cardSyncTimer = Null
    /\ hydrateFetch = Null
    /\ requests = {}
    /\ Total(genRequests, Instances) = 0

\* C7: with a credential configured and the deck exhausted, a generateBatch
\* request is issued without a learner action: the session never comes to
\* rest on an exhausted deck without having issued one.
C7_ExhaustedDeckGenerates ==
    (/\ mounted
     /\ hasKey
     /\ ~isHydrating
     /\ getNextCard(reviewCards, reviewCardState, now) = {Null}
     /\ Quiescent)
      => genStarted > 0

\* No generation may start: no key is configured, or the last generation
\* started less than 15 000 ms ago.
Blocked == ~hasKey \/ now - lastGenerationAt < 15000

\* C15: a maybeGenerate call made within the cooldown or without a key
\* issues no generateBatch request and changes no state, the button's call
\* like the effect's.
C15_BlockedCallIsNoOp ==
    [][Blocked =>
         /\ genStarted' = genStarted
         /\ \A i \in Instances : genRequests'[i] <= genRequests[i]
         /\ lastGenerationAt' = lastGenerationAt
         /\ isGenerating' => isGenerating
         /\ (lastCall' # lastCall /\ lastCall'.op = "generate")
              => UNCHANGED <<now, storeVars, nGraded, nAgainInReview, sessionVars>>]_vars

\* The button was clicked within the cooldown of a generation that had
\* already settled, and the click was dropped.
C15_Witness ==
    /\ lastCall.op = "generate"
    /\ ~lastCall.started
    /\ lastCall.at = now
    /\ now - lastGenerationAt < 15000
    /\ genStarted = 1
    /\ ~isGenerating
    /\ Total(genRequests, Instances) = 0

\* C16: once a generation has failed, a generateBatch request is issued only
\* by a step of the learner (a grade or a click on the button), never by the
\* failure or by what follows from it.
C16_NoAutomaticRetry ==
    [][(genFailed' /\ genStarted' > genStarted) =>
         \/ nGraded' # nGraded
         \/ lastCall' # lastCall /\ lastCall'.op = "generate"]_vars

\* The only generation failed, the cooldown is over, nothing is pending and
\* the deck is still exhausted.
C16_Witness ==
    /\ genFailed
    /\ mounted /\ hasKey /\ ~isHydrating /\ ~isGenerating
    /\ currentId = Null
    /\ getNextCard(reviewCards, reviewCardState, now) = {Null}
    /\ now - lastGenerationAt >= 15000
    /\ genStarted = 1
    /\ Quiescent

\* The ids whose states the saveReviewStates call carries.
Carried(req) == {id \in CardIds : req.states[id] # NoState}

\* C17: a grade restarts the one state-sync timer and writes nothing; the
\* timer fires 1200 ms or more after the last grade and makes exactly one
\* saveStates write, which carries the latest states of exactly the ids
\* graded since the previous flush.
C17_BurstOneWrite ==
    [][/\ nGraded' # nGraded =>
            /\ requests' = requests
            /\ syncTimer' = now + 1200
       /\ (syncTimer # Null /\ syncTimer' = Null) =>
            /\ \A id \in sinceFlush : now >= reviewCardState[id].lastReviewedAt + 1200
            /\ Cardinality(requests' \ requests) = 1
            /\ \A req \in requests' \ requests :
                 /\ req.kind = "states"
                 /\ Carried(req) = sinceFlush
                 /\ \A id \in sinceFlush : req.states[id] = reviewCardState[id]]_vars

\* Two cards were graded in one burst and one write carries both.
C17_Witness ==
    /\ nGraded = [id \in CardIds |-> 1]
    /\ syncTimer = Null
    /\ sinceFlush = {}
    /\ \E req \in requests :
         req.kind = "states" /\ req.cont = "none" /\ Carried(req) = CardIds

\* The learning pool and the due pool of the store, as the selection rule
\* names them.
LearningPool ==
    {id \in CardIds :
       /\ reviewCards[id] # NoCard /\ reviewCardState[id] # NoState
       /\ reviewCardState[id].phase = "learn"
       /\ reviewCardState[id].seenCount < 10}

DuePool ==
    {id \in CardIds :
       /\ reviewCards[id] # NoCard /\ reviewCardState[id] # NoState
       /\ reviewCardState[id].phase = "review"
       /\ reviewCardState[id].dueAt <= now}

\* C12: while the learning pool is non-empty, the card getNextCard returns is
\* a learning-pool card whose seenCount no other learning-pool card is below.
C12_MinSeenFirst ==
    (lastCall.op = "pick" /\ LearningPool # {}) =>
      /\ currentId \in LearningPool
      /\ \A id \in LearningPool :
           reviewCardState[currentId].seenCount <= reviewCardState[id].seenCount

\* Card 1 was seen three times, card 2 never: card 2 is returned.
C12_Witness ==
    /\ lastCall.op = "pick"
    /\ LearningPool = {1, 2}
    /\ reviewCardState[1].seenCount = 3
    /\ reviewCardState[2].seenCount = 0
    /\ currentId = 2

\* C13: getNextCard returns null exactly when the learning pool and the due
\* pool are both empty, and never a review-phase card that is not yet due.
C13_NullIffPoolsEmpty ==
    lastCall.op = "pick" =>
      /\ (currentId = Null) <=> (LearningPool = {} /\ DuePool = {})
      /\ currentId # Null => currentId \in LearningPool \cup DuePool

\* Null is returned although the store holds a review-phase card: it is due
\* only later.
C13_Witness ==
    /\ lastCall.op = "pick"
    /\ currentId = Null
    /\ \E id \in CardIds :
         /\ reviewCards[id] # NoCard /\ reviewCardState[id] # NoState
         /\ reviewCardState[id].phase = "review"
         /\ reviewCardState[id].dueAt > now

\* C14: with an empty learning pool and a non-empty due pool, the cards the
\* weighted draw can return are exactly the cards of the due pool.
C14_EveryDueCardSelectable ==
    (LearningPool = {} /\ DuePool # {}) =>
      getNextCard(reviewCards, reviewCardState, now) = DuePool

\* Two due cards of different weight; the lighter, second one was drawn.
C14_Witness ==
    /\ lastCall.op = "pick"
    /\ LearningPool = {}
    /\ DuePool = {1, 2}
    /\ reviewCardState[1].lapses = 1
    /\ reviewCardState[2].lapses = 0
    /\ currentId = 2

\* The step is a recordReviewResult call on a review-phase state of id.
ReviewGradeStep(id) ==
    /\ nGraded'[id] = nGraded[id] + 1
    /\ lastCall'.op = "grade"
    /\ reviewCardState[id] # NoState
    /\ reviewCardState[id].phase = "review"

\* C11: an "again" grade on a review-phase card sets repetition to 0 and
\* interval to 1, whatever the interval, repetition, ease and lapses were.
C11_AgainResets ==
    [][\A id \in CardIds :
         (ReviewGradeStep(id) /\ lastCall'.grade = "again")
           => /\ reviewCardState'[id].repetition = 0
              /\ reviewCardState'[id].interval = 1]_vars

\* "again" as the third review-phase grade, after two passing grades had
\* taken repetition to 3 and the interval beyond 6.
C11_Witness ==
    /\ nGraded[1] = GRADUATION_SEEN_COUNT + 3
    /\ lastCall.op = "grade" /\ lastCall.grade = "again"
    /\ reviewCardState[1].lapses = 1
    /\ reviewCardState[1].repetition = 0
    /\ reviewCardState[1].interval = 1

\* The step is ensureReviewCardsFromUnits or addGeneratedReviewCards.
UpsertStep == lastCall'.op \in {"ensure", "generated"}

\* C18: an upsert with a card id already in the store leaves that card's
\* content and its CardState, graded progress included, unchanged.
C18_UpsertKnownIdNoOp ==
    [][UpsertStep =>
         \A id \in CardIds :
           reviewCards[id] # NoCard =>
             /\ reviewCards'[id] = reviewCards[id]
             /\ reviewCardState'[id] = reviewCardState[id]]_vars

\* An upsert that carried a known id was made on a card already graded.
C18_Witness ==
    /\ lastCall.op \in {"ensure", "generated"}
    /\ lastCall.known
    /\ \E id \in CardIds :
         nGraded[id] > 0 /\ reviewCards[id] # NoCard /\ reviewCardState[id].seenCount = 1

\* The ids the step adds to the card list.
AddedIds == {id \in CardIds : reviewCards[id] = NoCard /\ reviewCards'[id] # NoCard}

\* C19 (as claimed): the CardState created for an added card has phase
\* learn, seenCount 0, dueAt = the time of insertion, interval 0,
\* repetition 0, ease 2.5 and lapses 0.
C19_CreatedDueNow ==
    [][UpsertStep =>
         \A id \in AddedIds :
           /\ reviewCardState'[id] # NoState
           /\ reviewCardState'[id].phase = "learn"
           /\ reviewCardState'[id].seenCount = 0
           /\ reviewCardState'[id].dueAt = now
           /\ reviewCardState'[id].interval = 0
           /\ reviewCardState'[id].repetition = 0
           /\ reviewCardState'[id].efactor = 250
           /\ reviewCardState'[id].lapses = 0]_vars

\* C19 (amended): the same, with dueAt = 0 in place of the insertion time.
C19_CreatedDueZero ==
    [][UpsertStep =>
         \A id \in AddedIds :
           /\ reviewCardState'[id] # NoState
           /\ reviewCardState'[id].phase = "learn"
           /\ reviewCardState'[id].seenCount = 0
           /\ reviewCardState'[id].dueAt = 0
           /\ reviewCardState'[id].interval = 0
           /\ reviewCardState'[id].repetition = 0
           /\ reviewCardState'[id].efactor = 250
           /\ reviewCardState'[id].lapses = 0]_vars

\* Card 2 was added by a generated batch and has not been graded.
C19_Witness ==
    /\ lastCall.op = "generated"
    /\ reviewCards[2] # NoCard
    /\ nGraded[2] = 0
    /\ reviewCardState[2] # NoState
    /\ reviewCardState[2].dueAt = 0

\* C20: after a grade at time t the graded card's dueAt is >= t.
C20_DueNotBeforeGrade ==
    lastCall.op = "grade" => reviewCardState[lastCall.id].dueAt >= lastCall.at

\* A review-phase grade made a day after graduation.
C20_Witness ==
    /\ lastCall.op = "grade"
    /\ lastCall.at > DAY_MS
    /\ nGraded[1] > GRADUATION_SEEN_COUNT
    /\ reviewCardState[1].dueAt = lastCall.at + reviewCardState[1].interval * DAY_MS

\* C21: hydrateReviewFromServer merges the remote state map over the local
\* one: an id the remote map holds ends with the remote state, an id the
\* remote map lacks keeps its previous local state, and no id loses its state.
C21_RemoteStateWins ==
    [][lastCall'.op = "hydrate"
         => \A id \in CardIds :
              /\ lastCall'.states[id] # NoState
                   => reviewCardState'[id] = lastCall'.states[id]
              /\ lastCall'.states[id] = NoState
                   => reviewCardState'[id] = reviewCardState[id]
              /\ reviewCardState[id] # NoState => reviewCardState'[id] # NoState]_vars

\* A locally graded card was hydrated over by a different remote state, next
\* to a card the remote map lacks.
C21_Witness ==
    /\ lastCall.op = "hydrate"
    /\ nGraded[1] = 1
    /\ lastCall.states[1] = Graduated
    /\ reviewCardState[1] = Graduated
    /\ lastCall.states[2] = NoState
    /\ reviewCardState[2] = initialReviewState

\* The step is a Good or Easy grade of card id in review phase.
PassingReviewStep(id) ==
    /\ ReviewGradeStep(id)
    /\ lastCall'.grade \in {"good", "easy"}

\* n is x / 10000 rounded to the nearest integer, halves upwards.
IsRounded(n, x) == 2 * x - 10000 < 2 * n * 10000 /\ 2 * n * 10000 <= 2 * x + 10000

\* C26: a Good (q = 4) or Easy (q = 5) grade of a review-phase card at time
\* now gives the SM-2 reference state: interval 1 after repetition 0, 6 after
\* repetition 1, otherwise round(interval * ease * bonus) with bonus 1.15 for
\* Easy and 1 for Good and the ease of before the grade; repetition + 1;
\* ease = max(1.3, ease + 0.1 - (5 - q) * (0.08 + (5 - q) * 0.02));
\* dueAt = now + interval days; lastReviewedAt = now.  Ease is in hundredths.
C26_PassingGradeIsSM2 ==
    [][\A id \in CardIds :
         PassingReviewStep(id) =>
           LET old == reviewCardState[id]
               new == reviewCardState'[id]
               q == IF lastCall'.grade = "easy" THEN 5 ELSE 4
               bonus == IF q = 5 THEN 115 ELSE 100
               ease == old.efactor + 10 - (5 - q) * (8 + (5 - q) * 2)
           IN /\ old.repetition = 0 => new.interval = 1
              /\ old.repetition = 1 => new.interval = 6
              /\ old.repetition > 1
                   => IsRounded(new.interval, old.interval * old.efactor * bonus)
              /\ new.repetition = old.repetition + 1
              /\ new.efactor = (IF ease < 130 THEN 130 ELSE ease)
              /\ new.dueAt = now + new.interval * 86400000
              /\ new.lastReviewedAt = now]_vars

\* The example of the claim: interval 6, repetition 2, ease 2.5 graded Good
\* gives interval 15 and repetition 3.
C26_Witness ==
    /\ lastCall.op = "grade" /\ lastCall.grade = "good"
    /\ nGraded[1] = GRADUATION_SEEN_COUNT + 2
    /\ reviewCardState[1].interval = 15
    /\ reviewCardState[1].repetition = 3
    /\ reviewCardState[1].efactor = 250

\* The fields of a state agree with its phase.
PhaseShape(st) ==
    /\ st.phase = "learn"
         => /\ st.seenCount < 10
            /\ st.interval = 0
            /\ st.repetition = 0
            /\ st.efactor = 250
            /\ st.lapses = 0
    /\ st.phase = "review"
         => /\ st.seenCount = 10
            /\ st.interval >= 1

\* C27: in every state reached from the initial CardState by grading only, a
\* learning-phase card has seenCount < 10, interval 0, repetition 0, ease 2.5
\* and no lapse, a review-phase card has seenCount = 10 and interval >= 1, and
\* a card in review phase never returns to the learning phase.
C27_PhaseShapeKept ==
    /\ [](\A id \in CardIds : PhaseShape(reviewCardState[id]))
    /\ [][\A id \in CardIds :
            reviewCardState[id].phase = "review"
              => reviewCardState'[id].phase = "review"]_vars

\* A review-phase card after an "again" grade: still in review, seenCount 10,
\* with a counted lapse and the interval back to 1.
C27_Witness ==
    /\ lastCall.op = "grade" /\ lastCall.grade = "again"
    /\ nGraded[1] > GRADUATION_SEEN_COUNT
    /\ reviewCardState[1].phase = "review"
    /\ reviewCardState[1].seenCount = 10
    /\ reviewCardState[1].lapses = 1
    /\ reviewCardState[1].interval = 1

\* C28: in every reachable store state the counts shown agree with selection:
\* getNextCard returns null exactly when learnRemaining = 0 and dueCount = 0.
C28_CountsAgreeWithSelection ==
    (getNextCard(reviewCards, reviewCardState, now) = {Null})
      <=> /\ LearnRemainingOf(reviewCards, reviewCardState) = 0
          /\ DueCountOf(reviewCards, reviewCardState, now) = 0

\* The step completes the hydration of the mounted component.
HydrationStep == hydrateFetch # Null /\ hydrateFetch' = Null /\ mounted'

\* C29: hydration never takes a card's local CardState backwards: across
\* hydrateReviewFromServer the seenCount and lastReviewedAt of every card do
\* not decrease and a review-phase card stays in review phase.
C29_HydrationKeepsProgress ==
    [][HydrationStep
         => \A id \in CardIds :
              reviewCardState[id] # NoState
                => /\ reviewCardState'[id] # NoState
                   /\ reviewCardState'[id].seenCount >= reviewCardState[id].seenCount
                   /\ reviewCardState'[id].lastReviewedAt >= reviewCardState[id].lastReviewedAt
                   /\ reviewCardState[id].phase = "review"
                        => reviewCardState'[id].phase = "review"]_vars

\* C24: the debounced card-metadata write is triggered only by a change of
\* the local card count: every step that arms the 1800 ms card-sync timer
\* changes the number of cards in the store.
C24_CardWriteOnlyOnCountChange ==
    [][(cardSyncTimer' # Null /\ cardSyncTimer' # cardSyncTimer)
         => Cardinality(HasCard(reviewCards')) # Cardinality(HasCard(reviewCards))]_vars

\* The bootstrap's saveReviewCardsBatch and saveReviewStates calls among rs.
BootCardPushes(rs) == {r \in rs : r.cont = "bootStates"}
BootStatePushes(rs) == {r \in rs : r.cont = "bootEnd"}

\* C25: on a load the bootstrap pushes the local deck once when the snapshot
\* holds no cards and never otherwise: the step that receives an empty
\* snapshot issues one saveReviewCardsBatch of the local cards, no other step
\* issues one, and the bootstrap's saveReviewStates of the local states is
\* issued once, by the completion of that card write.
C25_BootstrapOnceIffRemoteEmpty ==
    [][LET emptySnapshot == /\ HydrationStep
                            /\ lastCall'.op = "snapshot" /\ lastCall'.ok
                            /\ remoteCards = NoCards
           cardPushes == BootCardPushes(requests' \ requests)
           statePushes == BootStatePushes(requests' \ requests)
           settled == BootCardPushes(requests \ requests')
       IN /\ emptySnapshot
               => cardPushes = {Request("cards", reviewCards', reviewCardState',
                                        "bootStates", instance)}
          /\ ~emptySnapshot => cardPushes = {}
          /\ statePushes # {}
               => \E r \in settled :
                     statePushes = {Request("states", NoCards, r.states, "bootEnd", r.owner)}
          /\ (settled # {} /\ remoteCards' # remoteCards) => statePushes # {}]_vars

\* The snapshot was empty, the bootstrap's card write has reached the server
\* and its state write, carrying the local states, is in flight.
C25_Witness ==
    /\ lastCall.op = "snapshot" /\ lastCall.ok
    /\ remoteCards = reviewCards
    /\ remoteStates = NoStates
    /\ \E r \in BootStatePushes(requests) : r.states = reviewCardState

\* The step is the firing of the state-sync timer.
FlushStep == syncTimer # Null /\ syncTimer' = Null

\* C30: a grade is not lost from the pending set, whatever is in flight: the
\* grade puts its card id into the pending set and arms the timer; until the
\* timer fires no completion of a request (nor any other step) takes an id out
\* of the set or disarms the timer; and the flush made when the timer fires
\* carries the latest local state of every pending id.
C30_GradeInFlightStaysPending ==
    [][/\ \A id \in CardIds :
            nGraded'[id] # nGraded[id] => id \in pendingStateIds' /\ syncTimer' # Null
       /\ ~FlushStep
            => /\ pendingStateIds \subseteq pendingStateIds'
               /\ syncTimer # Null => syncTimer' # Null
       /\ FlushStep
            => \A id \in pendingStateIds :
                 \E req \in requests' \ requests :
                    req.kind = "states" /\ req.states[id] = reviewCardState[id]]_vars

\* Two flushes are in flight: the later one carries the latest state of a
\* card graded after the earlier one was sent, which the earlier one lacks.
C30_Witness ==
    \E r1 \in requests, r2 \in requests, id \in CardIds :
       /\ r1 # r2
       /\ r1.kind = "states" /\ r1.cont = "none" /\ Carried(r1) # {}
       /\ r2.kind = "states" /\ r2.cont = "none"
       /\ r2.states[id] = reviewCardState[id]
       /\ r1.states[id] # reviewCardState[id]
       /\ pendingStateIds = {}

\* C22: retention removes a card and its state as a pair: no request leaves
\* the state row of a card row it removed, nor the card row of a state row it
\* removed.
C22_PrunedAsPair ==
    [][\A id \in CardIds :
         /\ (cardCreatedAt[id] # NoRow /\ cardCreatedAt'[id] = NoRow)
              => stateUpdatedAt'[id] = NoRow
         /\ (stateUpdatedAt[id] # NoRow /\ stateUpdatedAt'[id] = NoRow)
              => cardCreatedAt'[id] = NoRow]_vars

\* C23: after a saveCardsBatch the session has at most maxCards card rows;
\* the rows the cap dropped (those removed although retention keeps them) are
\* not newer than any row kept, and none of them has a state row left.
C23_CapKeepsNewest ==
    [][lastCall'.op = "saveCardsBatch" =>
         LET created == [id \in CardIds |->
                           IF cardCreatedAt[id] # NoRow THEN cardCreatedAt[id]
                           ELSE IF id \in lastCall'.data THEN serverDay ELSE NoRow]
             kept == {id \in CardIds : cardCreatedAt'[id] # NoRow}
             dropped == {id \in CardIds \ kept :
                           created[id] # NoRow /\ created[id] >= serverDay - 90}
         IN /\ Cardinality(kept) <= lastCall'.maxCards
            /\ \A d \in dropped, k \in kept : created[d] <= created[k]
            /\ \A d \in dropped : stateUpdatedAt'[d] = NoRow]_vars

\* A batch bringing card 2 with maxCards = 1 dropped the older card 1 and
\* kept card 2.
C23_Witness ==
    /\ lastCall.op = "saveCardsBatch"
    /\ lastCall.maxCards = 1
    /\ lastCall.data = {2}
    /\ lastCall.dropped = {1}
    /\ cardCreatedAt[1] = NoRow /\ stateUpdatedAt[1] = NoRow
    /\ cardCreatedAt[2] = serverDay

====
